---- MODULE Spec2Model ----
(***************************************************************************)
(* Model of the embedkv storage core: Slot (src/src/slot.rs), FreeList     *)
(* (src/src/freelist.rs) and Persister (src/src/persist.rs).               *)
(*                                                                         *)
(* Spec, SpecFit, SpecData and SpecFail drive a Persister through          *)
(* insert_kv / get_value / update_value / delete_kv, each with its own     *)
(* set of values and write outcomes.  SpecFL drives a FreeList alone       *)
(* through its own public operations.                                      *)
(***************************************************************************)
EXTENDS Integers, Sequences, FiniteSets, TLC

(***************************************************************************)
(* Bounds of the model.                                                    *)
(***************************************************************************)
NumKeys == 2        \* keys are 1..NumKeys
MaxFree == 2        \* calls are taken while they leave at most this many free slots
MaxLen == 2         \* Spec: longest value handed to insert_kv / update_value
MaxFile == 4        \* Spec: appends are taken while they end at or below this
DataMaxLen == 2     \* SpecData: longest value
DataMaxFile == 2    \* SpecData: appends are taken while they end at or below this
MaxByte == 2        \* SpecData: byte values written are 1..MaxByte (0 is a file hole)
FailMaxLen == 1     \* SpecFail: longest value
FailMaxFile == 2    \* SpecFail: appends are taken while they end at or below this
FitMinLen == 2      \* SpecFit: shortest value
FitMaxLen == 4      \* SpecFit: longest value
FitMaxFile == 6     \* SpecFit: appends are taken while they end at or below this
FLMaxCursor == 2    \* SpecFL: largest cursor handed to the free list
FLMaxSpace == 4     \* SpecFL: largest space handed to the free list
FLMaxList == 3      \* SpecFL: insert_free_space is called below this length
FLMaxUsed == 2      \* SpecFL: longest slot vector handed to new_from_index

\* usize arithmetic wraps modulo 2^64 when overflow checks are off; TLC's
\* integers are 32 bits wide, so the width is scaled down to 30 bits.
UsizeModulus == 2 ^ 30

VARIABLES
    freelist,     \* Persister.freelist: [list, total_free_space]
    index,        \* Persister.index: BTreeMap<K, Slot> as a function on the present keys
    last_cursor,  \* Persister.last_cursor
    db_file,      \* bytes of Persister.header.db_file
    ret,          \* the last call: operation, arguments, result
    build         \* what the toolchain fixes: the binary_search algorithm

vars == <<freelist, index, last_cursor, db_file, ret, build>>

Keys == 1..NumKeys
Bytes == 1..MaxByte

\* a vector of n copies of the byte b
Filled(n, b) == [i \in 1..n |-> b]

\* Spec follows where values are placed: it hands in one value of each
\* length 0..MaxLen and every write succeeds
Values == {Filled(n, 1) : n \in 0..MaxLen}

\* SpecFit does the same with the lengths FitMinLen..FitMaxLen
FitValues == {Filled(n, 1) : n \in FitMinLen..FitMaxLen}

\* SpecData follows what the file holds: it hands in every byte vector of
\* length 0..DataMaxLen and every write succeeds
DataValues == UNION {[1..n -> Bytes] : n \in 0..DataMaxLen}

\* SpecFail follows failing writes: it hands in one value of each length
\* 0..FailMaxLen, and a write may fail after any prefix
FailValues == {Filled(n, 1) : n \in 0..FailMaxLen}

(***************************************************************************)
(* slot.rs                                                                 *)
(***************************************************************************)
Slot(c, s) == [cursor |-> c, space |-> s]

\* stands for "no slot" in ret (Option::None)
NoSlot == [cursor |-> -1, space |-> -1]

\* impl Ord for Slot: only the space is compared
cmp(a, b) ==
    IF a.space < b.space THEN "Less"
    ELSE IF a.space > b.space THEN "Greater"
    ELSE "Equal"

func_is_neighbour(nb1, nb2) ==
    nb1.cursor > 0 /\ nb1.cursor = nb2.cursor + nb2.space

is_neighbour_of(self, spot) ==
    func_is_neighbour(self, spot) \/ func_is_neighbour(spot, self)

Min(a, b) == IF a < b THEN a ELSE b
Max(a, b) == IF a > b THEN a ELSE b

merge_with(self, spot) ==
    Slot(Min(self.cursor, spot.cursor), self.space + spot.space)

(***************************************************************************)
(* Vec helpers (0-based positions, as in the source)                       *)
(***************************************************************************)
VecInsert(list, pos, x) ==
    SubSeq(list, 1, pos) \o <<x>> \o SubSeq(list, pos + 1, Len(list))

VecRemove(list, pos) ==
    SubSeq(list, 1, pos) \o SubSeq(list, pos + 2, Len(list))

\* slice::binary_search as shipped by Rust 1.52 .. 1.81
RECURSIVE BsClassic(_, _, _, _)
BsClassic(list, x, left, right) ==
    IF left < right
    THEN LET mid == left + ((right - left) \div 2)
             c == cmp(list[mid + 1], x)
         IN  IF c = "Equal" THEN [found |-> TRUE, pos |-> mid]
             ELSE IF c = "Less" THEN BsClassic(list, x, mid + 1, right)
             ELSE BsClassic(list, x, left, mid)
    ELSE [found |-> FALSE, pos |-> left]

\* slice::binary_search as shipped before Rust 1.52 and since Rust 1.82
RECURSIVE BsBase(_, _, _, _)
BsBase(list, x, base, size) ==
    IF size > 1
    THEN LET half == size \div 2
             mid == base + half
         IN  BsBase(list, x,
                    IF cmp(list[mid + 1], x) = "Greater" THEN base ELSE mid,
                    size - half)
    ELSE base

BsBranchless(list, x) ==
    IF Len(list) = 0
    THEN [found |-> FALSE, pos |-> 0]
    ELSE LET base == BsBase(list, x, 0, Len(list))
             c == cmp(list[base + 1], x)
         IN  IF c = "Equal" THEN [found |-> TRUE, pos |-> base]
             ELSE [found |-> FALSE, pos |-> base + (IF c = "Less" THEN 1 ELSE 0)]

\* self.list.binary_search(&value): Ok(pos) is found = TRUE, Err(pos) is found = FALSE
binary_search(bs, list, x) ==
    IF bs = "classic" THEN BsClassic(list, x, 0, Len(list)) ELSE BsBranchless(list, x)

\* stable insertion of x behind every element that is not greater (slice::sort is stable)
RECURSIVE SortedInsert(_, _, _)
SortedInsert(sorted, x, field) ==
    IF sorted = <<>> THEN <<x>>
    ELSE IF Head(sorted)[field] <= x[field]
         THEN <<Head(sorted)>> \o SortedInsert(Tail(sorted), x, field)
         ELSE <<x>> \o sorted

RECURSIVE StableSort(_, _)
StableSort(list, field) ==
    IF list = <<>> THEN <<>>
    ELSE SortedInsert(StableSort(SubSeq(list, 1, Len(list) - 1), field),
                      list[Len(list)], field)

RECURSIVE SumSpace(_)
SumSpace(list) ==
    IF list = <<>> THEN 0 ELSE Head(list).space + SumSpace(Tail(list))

(***************************************************************************)
(* freelist.rs: a free list is [list, total_free_space]                    *)
(***************************************************************************)
FreeList(l, t) == [list |-> l, total_free_space |-> t]

new == FreeList(<<>>, 0)

\* the loop of new_from_index over the slots sorted by cursor; acc is the
\* free list built so far (new_list, total_free_space)
RECURSIVE NewFromIndexLoop(_, _, _)
NewFromIndexLoop(used, i, acc) ==
    IF i > Len(used) THEN acc
    ELSE LET current_slot == used[i]
             previous_slot == IF i = 1 THEN Slot(0, 0) ELSE used[i - 1]
             acc1 == IF i = 1 /\ current_slot.cursor > 0
                     THEN FreeList(Append(acc.list, Slot(0, current_slot.cursor - 1)),
                                   acc.total_free_space + (current_slot.cursor - 1))
                     ELSE acc
             acc2 == IF i > 1 /\ current_slot.cursor # previous_slot.space + previous_slot.cursor + 1
                     THEN FreeList(Append(acc1.list,
                                          Slot(previous_slot.cursor + previous_slot.space + 1,
                                               current_slot.cursor - previous_slot.cursor)),
                                   acc1.total_free_space
                                       + (current_slot.cursor - previous_slot.cursor))
                     ELSE acc1
         IN  NewFromIndexLoop(used, i + 1, acc2)

new_from_index(used_slot_list) ==
    NewFromIndexLoop(StableSort(used_slot_list, "cursor"), 1, FreeList(<<>>, 0))

\* insert_free_space that forgets to count the space it takes in
insert_free_space_uncounted(bs, fl, cursor, space) ==
    LET value == Slot(cursor, space)
        pos == binary_search(bs, fl.list, value).pos
    IN  FreeList(VecInsert(fl.list, pos, value), fl.total_free_space)

\* insert_free_space that drops the slot
insert_free_space_dropped(bs, fl, cursor, space) == fl

insert_free_space(bs, fl, cursor, space) ==
    LET value == Slot(cursor, space)
        pos == binary_search(bs, fl.list, value).pos
    IN  FreeList(VecInsert(fl.list, pos, value), fl.total_free_space + space)

\* result: some = FALSE is None; otherwise claimed is the slot handed out and
\* list the vector left behind
retrieve_equal_or_bigger_than(bs, list, expected_amount) ==
    LET r == binary_search(bs, list, expected_amount)
    IN  IF ~r.found /\ ~(r.pos < Len(list))
        THEN [some |-> FALSE, claimed |-> NoSlot, list |-> list]
        ELSE LET pos == r.pos
                 claimed == list[pos + 1]
                 removed == VecRemove(list, pos)
                 free_space == Slot(claimed.cursor + expected_amount.space,
                                    claimed.space - expected_amount.space)
             IN  [some |-> TRUE,
                  claimed |-> Slot(claimed.cursor, expected_amount.space),
                  list |-> IF claimed.space > expected_amount.space
                           THEN VecInsert(removed, pos, free_space)
                           ELSE removed]

\* retrieve_free_space that forgets to count the space handed out
retrieve_free_space_uncounted(bs, fl, space) ==
    LET val == retrieve_equal_or_bigger_than(bs, fl.list, Slot(0, space))
    IN  IF val.some
        THEN [some |-> TRUE, cursor |-> val.claimed.cursor,
              fl |-> FreeList(val.list, fl.total_free_space)]
        ELSE [some |-> FALSE, cursor |-> 0, fl |-> fl]

\* result: some = FALSE is None; otherwise cursor is the offset returned;
\* fl is the free list after the call
retrieve_free_space(bs, fl, space) ==
    LET space_cursor == Slot(0, space)
        val == retrieve_equal_or_bigger_than(bs, fl.list, space_cursor)
    IN  IF val.some
        THEN [some |-> TRUE, cursor |-> val.claimed.cursor,
              fl |-> FreeList(val.list, fl.total_free_space - val.claimed.space)]
        ELSE [some |-> FALSE, cursor |-> 0, fl |-> fl]

\* inner loop of compact that stops at the first neighbour it absorbs
RECURSIVE CompactScan_once(_, _, _, _)
CompactScan_once(list, y, tmp_fs, already_merged) ==
    IF y > Len(list) THEN [tmp_fs |-> tmp_fs, already_merged |-> already_merged]
    ELSE IF is_neighbour_of(tmp_fs, list[y]) /\ y \notin already_merged
         THEN [tmp_fs |-> merge_with(tmp_fs, list[y]),
               already_merged |-> already_merged \cup {y}]
         ELSE CompactScan_once(list, y + 1, tmp_fs, already_merged)

\* inner loop of compact: absorb into tmp_fs every later neighbour not merged yet
RECURSIVE CompactScan(_, _, _, _)
CompactScan(list, y, tmp_fs, already_merged) ==
    IF y > Len(list) THEN [tmp_fs |-> tmp_fs, already_merged |-> already_merged]
    ELSE IF is_neighbour_of(tmp_fs, list[y]) /\ y \notin already_merged
         THEN CompactScan(list, y + 1, merge_with(tmp_fs, list[y]), already_merged \cup {y})
         ELSE CompactScan(list, y + 1, tmp_fs, already_merged)

\* outer loop of compact over the list sorted by cursor
RECURSIVE CompactLoop(_, _, _, _)
CompactLoop(list, x, already_merged, new_list) ==
    IF x > Len(list) THEN new_list
    ELSE IF x \in already_merged
         THEN CompactLoop(list, x + 1, already_merged, new_list)
         ELSE LET s == CompactScan(list, x + 1, list[x], already_merged)
              IN  CompactLoop(list, x + 1, s.already_merged, Append(new_list, s.tmp_fs))

compact(fl) ==
    FreeList(StableSort(CompactLoop(StableSort(fl.list, "cursor"), 1, {}, <<>>), "space"),
             fl.total_free_space)

(***************************************************************************)
(* persist.rs                                                              *)
(***************************************************************************)
\* usize subtraction with overflow checks off
WrappingSub(a, b) == (a - b) % UsizeModulus

\* offsets are handed to lseek as i64: a seek to the upper half of the usize
\* range fails
SeekLimit == UsizeModulus \div 2

\* what a seek + write_all of n bytes at cursor can do: write them all and
\* succeed, or fail after some shorter prefix (a failing seek writes nothing)
FailWriteOutcomes(n) ==
    {[ok |-> TRUE, written |-> n]}
        \cup {[ok |-> FALSE, written |-> p] : p \in 0..Max(n - 1, 0)}

\* every write succeeds
WriteOutcomes(n) == {[ok |-> TRUE, written |-> n]}

\* the outcomes w that a write at cursor can have
CanWrite(cursor, w) == cursor >= SeekLimit => (~w.ok /\ w.written = 0)

\* persist_value that seeks one byte too far
persist_value_shifted(file, data, cursor, w) ==
    IF w.written = 0 THEN file
    ELSE [i \in 1..Max(Len(file), cursor + 1 + w.written) |->
              IF i > cursor + 1 /\ i <= cursor + 1 + w.written THEN data[i - cursor - 1]
              ELSE IF i <= Len(file) THEN file[i]
              ELSE 0]

\* the file after the first `written` bytes of data were written at cursor;
\* writing behind the end of the file leaves a hole of zero bytes
persist_value(file, data, cursor, w) ==
    IF w.written = 0 THEN file
    ELSE [i \in 1..Max(Len(file), cursor + w.written) |->
              IF i > cursor /\ i <= cursor + w.written THEN data[i - cursor]
              ELSE IF i <= Len(file) THEN file[i]
              ELSE 0]

\* read_exact_at of space bytes at cursor
retrieve_value(file, cursor, space) ==
    IF space = 0 THEN [res |-> "Ok", out |-> <<>>]
    ELSE IF cursor + space > Len(file) THEN [res |-> "IOError", out |-> <<>>]
    ELSE [res |-> "Ok", out |-> SubSeq(file, cursor + 1, cursor + space)]

\* contains_key that never finds the key
contains_key_never(idx, key) == FALSE

\* BTreeMap::contains_key
contains_key(idx, key) == key \in DOMAIN idx

\* get that answers an empty slot for a key it does not hold
get_or_default(idx, key) == IF key \in DOMAIN idx THEN idx[key] ELSE Slot(0, 0)

\* Option<&Slot>: NoSlot is None
get(idx, key) == IF key \in DOMAIN idx THEN idx[key] ELSE NoSlot

\* insert that leaves the map as it is
IndexInsert_skipped(idx, key, slot) == idx

IndexInsert(idx, key, slot) ==
    [k \in DOMAIN idx \cup {key} |-> IF k = key THEN slot ELSE idx[k]]

IndexRemove(idx, key) ==
    [k \in DOMAIN idx \ {key} |-> idx[k]]

EmptyIndex == [k \in {} |-> NoSlot]

\* the slot taken out of the index by the call before this one, when that
\* call was a successful delete_kv
Freed == IF ret.op = "delete_kv" /\ ret.res = "Ok" THEN ret.slot ELSE NoSlot

\* the record of a call kept in ret: the operation, its key, the value it
\* handed to the file (empty when it returned before), its result, the bytes
\* it returned, what became of its file write ("none" without one), the slot it put
\* into the index or, for delete_kv, took out of it, where it allocated
\* ("reuse" of a free slot, "append" at last_cursor, "none") and Freed
Call(op, key, value, res, out, io, slot, alloc) ==
    [op |-> op, key |-> key, value |-> value, res |-> res, out |-> out,
     io |-> io, slot |-> slot, alloc |-> alloc, freed |-> Freed]

\* the record of a construction
Constructed(op, value) ==
    [op |-> op, key |-> 0, value |-> value, res |-> "Ok", out |-> <<>>,
     io |-> "none", slot |-> NoSlot, alloc |-> "none", freed |-> NoSlot]

\* Persister::get_value as a function of the state
GetValue(idx, file, key) ==
    LET val == get(idx, key)
    IN  IF val # NoSlot
        THEN retrieve_value(file, val.cursor, val.space)
        ELSE [res |-> "KeyDoesNotExist", out |-> <<>>]

Init ==
    /\ freelist = new
    /\ index = EmptyIndex
    /\ last_cursor = 0
    /\ db_file = <<>>
    /\ ret = Constructed("new", <<>>)
    /\ build \in [bsearch : {"classic", "branchless"}]

\* a panic ends the program
Running == ret.res # "panic"

\* usize subtraction a - b: it panics when overflow checks are on and b > a,
\* and wraps when they are off
OverflowOutcomes(a, b) == IF b > a THEN {"panic", "wrap"} ELSE {"exact"}

insert_kv(key, value, w) ==
    LET n == Len(value)
        r == retrieve_free_space(build.bsearch, freelist, n)
        cursor == IF r.some THEN r.cursor ELSE last_cursor
        lc1 == IF r.some THEN last_cursor ELSE last_cursor + n
        alloc == IF r.some THEN "reuse" ELSE "append"
    IN
    /\ Running
    /\ UNCHANGED build
    /\ IF contains_key(index, key)
       THEN /\ ret' = Call("insert_kv", key, <<>>, "KeyAlreadyExist", <<>>, "none",
                           NoSlot, "none")
            /\ UNCHANGED <<freelist, index, last_cursor, db_file>>
       ELSE IF n > 0
       THEN /\ CanWrite(cursor, w)
            /\ freelist' = r.fl
            /\ db_file' = persist_value(db_file, value, cursor, w)
            /\ IF w.ok
               THEN /\ last_cursor' = lc1
                    /\ index' = IndexInsert(index, key, Slot(cursor, n))
                    /\ ret' = Call("insert_kv", key, value, "Ok", <<>>, "ok",
                                   Slot(cursor, n), alloc)
               ELSE /\ UNCHANGED index
                    /\ \E oc1 \in OverflowOutcomes(lc1, n) :
                         \* line 51: last_cursor - value.len()
                         IF oc1 = "panic"
                         THEN /\ last_cursor' = lc1
                              /\ ret' = Call("insert_kv", key, value, "panic", <<>>, "fail",
                                             NoSlot, alloc)
                         ELSE IF cursor = WrappingSub(lc1, n)
                         THEN \E oc2 \in OverflowOutcomes(cursor, n) :
                                \* line 52: cursor - value.len()
                                IF oc2 = "panic"
                                THEN /\ last_cursor' = lc1
                                     /\ ret' = Call("insert_kv", key, value, "panic", <<>>,
                                                    "fail", NoSlot, alloc)
                                ELSE /\ last_cursor' = WrappingSub(cursor, n)
                                     /\ ret' = Call("insert_kv", key, value, "IOError", <<>>,
                                                    "fail", NoSlot, alloc)
                         ELSE /\ last_cursor' = lc1
                              /\ ret' = Call("insert_kv", key, value, "IOError", <<>>,
                                             "fail", NoSlot, alloc)
       ELSE /\ w.ok
            /\ index' = IndexInsert(index, key, Slot(0, 0))
            /\ ret' = Call("insert_kv", key, value, "Ok", <<>>, "none", Slot(0, 0), "none")
            /\ UNCHANGED <<freelist, last_cursor, db_file>>

get_value(key) ==
    LET g == GetValue(index, db_file, key)
    IN
    /\ Running
    /\ ret' = Call("get_value", key, <<>>, g.res, g.out, "none", get(index, key), "none")
    /\ UNCHANGED <<freelist, index, last_cursor, db_file, build>>

update_value(key, value, w) ==
    LET n == Len(value)
        old == get(index, key)
        \* lines 93-112: free the previous data and claim more space
        fl1 == insert_free_space(build.bsearch, freelist, old.cursor, old.space)
        lc1 == IF old.cursor + old.space = last_cursor THEN old.cursor ELSE last_cursor
        r == retrieve_free_space(build.bsearch, fl1, n)
        grown == IF r.some
                 THEN [cursor |-> r.cursor, fl |-> r.fl, alloc |-> "reuse",
                       last_cursor |-> IF r.cursor >= lc1 THEN r.cursor + n ELSE lc1]
                 ELSE [cursor |-> lc1, fl |-> fl1, alloc |-> "append",
                       last_cursor |-> lc1 + n]
        \* lines 115-117: give back the leftover of a smaller value
        shrunk == [cursor |-> old.cursor, alloc |-> "none",
                   fl |-> insert_free_space(build.bsearch, freelist,
                                            old.cursor + n, old.space - n),
                   last_cursor |-> last_cursor]
        same == [cursor |-> old.cursor, fl |-> freelist, alloc |-> "none",
                 last_cursor |-> last_cursor]
        st == IF n > old.space THEN grown ELSE IF n < old.space THEN shrunk ELSE same
    IN
    /\ Running
    /\ UNCHANGED build
    /\ IF old = NoSlot
       THEN /\ w.ok
            /\ ret' = Call("update_value", key, <<>>, "KeyDoesNotExist", <<>>, "none",
                           NoSlot, "none")
            /\ UNCHANGED <<freelist, index, last_cursor, db_file>>
       ELSE /\ CanWrite(st.cursor, w)
            /\ freelist' = st.fl
            /\ last_cursor' = st.last_cursor
            /\ db_file' = persist_value(db_file, value, st.cursor, w)
            /\ index' = IndexInsert(index, key, Slot(st.cursor, n))
            /\ ret' = Call("update_value", key, value, "Ok", <<>>,
                           IF w.ok THEN "ok" ELSE "fail", Slot(st.cursor, n), st.alloc)

\* delete_kv that moves last_cursor to the deleted slot wherever the slot lies
delete_kv_rewinding(key) ==
    LET val == get(index, key)
    IN
    /\ Running
    /\ UNCHANGED <<db_file, build>>
    /\ IF val # NoSlot
       THEN /\ last_cursor' = val.cursor
            /\ freelist' = insert_free_space(build.bsearch, freelist, val.cursor, val.space)
            /\ index' = IndexRemove(index, key)
            /\ ret' = Call("delete_kv", key, <<>>, "Ok", <<>>, "none", val, "none")
       ELSE /\ ret' = Call("delete_kv", key, <<>>, "KeyDoesNotExist", <<>>, "none",
                           NoSlot, "none")
            /\ UNCHANGED <<freelist, index, last_cursor>>

delete_kv(key) ==
    LET val == get(index, key)
    IN
    /\ Running
    /\ UNCHANGED <<db_file, build>>
    /\ IF val # NoSlot
       THEN /\ last_cursor' = IF last_cursor = val.cursor + val.space
                              THEN val.cursor ELSE last_cursor
            /\ freelist' = insert_free_space(build.bsearch, freelist, val.cursor, val.space)
            /\ index' = IndexRemove(index, key)
            /\ ret' = Call("delete_kv", key, <<>>, "Ok", <<>>, "none", val, "none")
       ELSE /\ ret' = Call("delete_kv", key, <<>>, "KeyDoesNotExist", <<>>, "none",
                           NoSlot, "none")
            /\ UNCHANGED <<freelist, index, last_cursor>>

\* the bound on a step: last_cursor is moved to maxfile at most, except by a
\* failing call that starts at or below maxfile (its rollback may wrap around);
\* no call grows the free list behind MaxFree slots
Within(maxfile) ==
    /\ \/ last_cursor' <= maxfile
       \/ last_cursor' = last_cursor
       \/ last_cursor <= maxfile /\ ret'.res # "Ok"
    /\ Len(freelist'.list) <= Max(Len(freelist.list), MaxFree)

Next ==
    \/ \E key \in Keys, value \in Values :
           \E w \in WriteOutcomes(Len(value)) :
               insert_kv(key, value, w) /\ Within(MaxFile)
    \/ \E key \in Keys : get_value(key)
    \/ \E key \in Keys, value \in Values :
           \E w \in WriteOutcomes(Len(value)) :
               update_value(key, value, w) /\ Within(MaxFile)
    \/ \E key \in Keys : delete_kv(key) /\ Within(MaxFile)

Spec == Init /\ [][Next]_vars

NextFit ==
    \/ \E key \in Keys, value \in FitValues :
           \E w \in WriteOutcomes(Len(value)) :
               insert_kv(key, value, w) /\ Within(FitMaxFile)
    \/ \E key \in Keys : get_value(key)
    \/ \E key \in Keys, value \in FitValues :
           \E w \in WriteOutcomes(Len(value)) :
               update_value(key, value, w) /\ Within(FitMaxFile)
    \/ \E key \in Keys : delete_kv(key) /\ Within(FitMaxFile)

SpecFit == Init /\ [][NextFit]_vars

NextData ==
    \/ \E key \in Keys, value \in DataValues :
           \E w \in WriteOutcomes(Len(value)) :
               insert_kv(key, value, w) /\ Within(DataMaxFile)
    \/ \E key \in Keys : get_value(key)
    \/ \E key \in Keys, value \in DataValues :
           \E w \in WriteOutcomes(Len(value)) :
               update_value(key, value, w) /\ Within(DataMaxFile)
    \/ \E key \in Keys : delete_kv(key) /\ Within(DataMaxFile)

SpecData == Init /\ [][NextData]_vars

NextFail ==
    \/ \E key \in Keys, value \in FailValues :
           \E w \in FailWriteOutcomes(Len(value)) :
               insert_kv(key, value, w) /\ Within(FailMaxFile)
    \/ \E key \in Keys : get_value(key)
    \/ \E key \in Keys, value \in FailValues :
           \E w \in FailWriteOutcomes(Len(value)) :
               update_value(key, value, w) /\ Within(FailMaxFile)
    \/ \E key \in Keys : delete_kv(key) /\ Within(FailMaxFile)

SpecFail == Init /\ [][NextFail]_vars

(***************************************************************************)
(* SpecFL: a FreeList on its own, driven through its public operations.    *)
(* The Persister's other fields stay as constructed.                       *)
(***************************************************************************)
FLSlots == {Slot(c, s) : c \in 0..FLMaxCursor, s \in 0..FLMaxSpace}

\* the slot vectors handed to new_from_index
FLUsed == UNION {[1..n -> FLSlots] : n \in 0..FLMaxUsed}

\* construction by new or by new_from_index; ret.value keeps the slot vector
\* handed to new_from_index
InitFL ==
    /\ index = EmptyIndex
    /\ last_cursor = 0
    /\ db_file = <<>>
    /\ build \in [bsearch : {"classic", "branchless"}]
    /\ \/ /\ freelist = new
          /\ ret = Constructed("new", <<>>)
       \/ \E used_slot_list \in FLUsed :
             /\ freelist = new_from_index(used_slot_list)
             /\ ret = Constructed("new_from_index", used_slot_list)

CallInsertFreeSpace(cursor, space) ==
    /\ freelist' = insert_free_space(build.bsearch, freelist, cursor, space)
    /\ ret' = Call("insert_free_space", 0, <<>>, "Ok", <<>>, "none", Slot(cursor, space), "none")
    /\ UNCHANGED <<index, last_cursor, db_file, build>>

\* ret.slot: the cursor returned (0 with None) and the space asked for
CallRetrieveFreeSpace(space) ==
    LET r == retrieve_free_space(build.bsearch, freelist, space)
    IN  /\ freelist' = r.fl
        /\ ret' = Call("retrieve_free_space", 0, <<>>, IF r.some THEN "Some" ELSE "None",
                       <<>>, "none", Slot(r.cursor, space), "none")
        /\ UNCHANGED <<index, last_cursor, db_file, build>>

CallCompact ==
    /\ freelist' = compact(freelist)
    /\ ret' = Call("compact", 0, <<>>, "Ok", <<>>, "none", NoSlot, "none")
    /\ UNCHANGED <<index, last_cursor, db_file, build>>

NextFL ==
    \/ \E cursor \in 0..FLMaxCursor, space \in 0..FLMaxSpace :
           Len(freelist.list) < FLMaxList /\ CallInsertFreeSpace(cursor, space)
    \/ \E space \in 0..FLMaxSpace : CallRetrieveFreeSpace(space)
    \/ CallCompact

SpecFL == InitFL /\ [][NextFL]_vars

\* SpecFLOps: a FreeList constructed by new and driven by insert_free_space
\* and retrieve_free_space alone
InitFLOps ==
    /\ index = EmptyIndex
    /\ last_cursor = 0
    /\ db_file = <<>>
    /\ build \in [bsearch : {"classic", "branchless"}]
    /\ freelist = new
    /\ ret = Constructed("new", <<>>)

NextFLOps ==
    \/ \E cursor \in 0..FLMaxCursor, space \in 0..FLMaxSpace :
           Len(freelist.list) < FLMaxList /\ CallInsertFreeSpace(cursor, space)
    \/ \E space \in 0..FLMaxSpace : CallRetrieveFreeSpace(space)

SpecFLOps == InitFLOps /\ [][NextFLOps]_vars

(***************************************************************************)
(* Properties                                                              *)
(***************************************************************************)
\* the byte b lies in the slot
Covers(slot, b) == slot.cursor <= b /\ b < slot.cursor + slot.space

Overlap(a, b) ==
    /\ a.space > 0 /\ b.space > 0
    /\ a.cursor < b.cursor + b.space
    /\ b.cursor < a.cursor + a.space

\* the positions of list whose slot has the given space
WithSpace(list, n) == {i \in 1..Len(list) : list[i].space = n}

\* the bytes a list of slots covers
BytesOf(list) ==
    UNION {list[i].cursor .. (list[i].cursor + list[i].space - 1) : i \in 1..Len(list)}

\* a list of slots as a bag: how often each slot occurs
BagOf(list) ==
    [slot \in {list[i] : i \in 1..Len(list)} |->
        Cardinality({i \in 1..Len(list) : list[i] = slot})]

\* C1: no two index entries of different keys hold overlapping byte ranges
\* (entries of length 0 excepted), in every state reachable when all file
\* writes succeed.
C1_NoOverlap ==
    \A k1, k2 \in DOMAIN index :
        k1 # k2 => ~Overlap(index[k1], index[k2])

\* how many occupied and free slots cover the byte b
Coverage(b) ==
    Cardinality({k \in DOMAIN index : Covers(index[k], b)})
        + Cardinality({i \in 1..Len(freelist.list) : Covers(freelist.list[i], b)})

\* C2: between operations every byte offset below last_cursor is covered by
\* exactly one slot among the occupied slots of the index and the free slots
\* of the free list.
C2_ExactCover ==
    \A b \in 0..(last_cursor - 1) : Coverage(b) = 1

\* C3: after any sequence of FreeList operations, and after construction by
\* new or new_from_index, total_free_space equals the sum of the space fields
\* of the slots in the list.
C3_TotalIsSum ==
    freelist.total_free_space = SumSpace(freelist.list)

\* C3 witness: a retrieve that split a slot and left free space behind
C3_Witness ==
    /\ ret.op = "retrieve_free_space" /\ ret.res = "Some"
    /\ ret.slot.space > 0
    /\ Len(freelist.list) >= 2
    /\ freelist.total_free_space > 0
    /\ \E i \in 1..Len(freelist.list) :
           freelist.list[i].cursor = ret.slot.cursor + ret.slot.space

\* C4: right after a successful insert_kv(k, v) of a key that was not in the
\* index, get_value(k) returns exactly v; v may be empty.
C4_RoundTrip ==
    (ret.op = "insert_kv" /\ ret.res = "Ok")
        => GetValue(index, db_file, ret.key) = [res |-> "Ok", out |-> ret.value]

\* C4 witness: a value of two different bytes was inserted into a reused slot
C4_Witness ==
    /\ ret.op = "insert_kv" /\ ret.res = "Ok"
    /\ ret.alloc = "reuse"
    /\ Len(ret.value) = 2 /\ ret.value[1] # ret.value[2]

\* the step is a successful insert_kv of a value of length n > 0 right after
\* a successful delete_kv of a slot of length n
C5_Case ==
    /\ ret.op = "delete_kv" /\ ret.res = "Ok" /\ ret.slot.space > 0
    /\ ret'.op = "insert_kv" /\ ret'.res = "Ok"
    /\ Len(ret'.value) = ret.slot.space

Taken(list, i, n) ==
    IF list[i].space > n
    THEN [list EXCEPT ![i] = Slot(list[i].cursor + n, list[i].space - n)]
    ELSE VecRemove(list, i - 1)

\* C6: insert_kv of a non-empty value of length n places it at the offset of
\* a smallest free slot of length >= n when the free list holds one, leaving
\* the remainder of that slot free at offset + n, and otherwise places it at
\* the old last_cursor and advances last_cursor by exactly n.
C6_BestFitOrAppend ==
    [][(ret'.op = "insert_kv" /\ ret'.res = "Ok" /\ Len(ret'.value) > 0) =>
         LET n == Len(ret'.value)
             list == freelist.list
             fits == {i \in 1..Len(list) : list[i].space >= n}
         IN  IF fits # {}
             THEN \E i \in fits :
                    /\ \A j \in fits : list[i].space <= list[j].space
                    /\ ret'.slot.cursor = list[i].cursor
                    /\ BagOf(freelist'.list) = BagOf(Taken(list, i, n))
             ELSE /\ ret'.slot.cursor = last_cursor
                  /\ last_cursor' = last_cursor + n]_vars

\* C7: insert_kv on a key already in the index returns KeyAlreadyExist and
\* leaves the index, the free list, last_cursor and the file unchanged.
C7_DuplicateKeyRejected ==
    [][(ret'.op = "insert_kv" /\ ret'.key \in DOMAIN index) =>
         /\ ret'.res = "KeyAlreadyExist"
         /\ UNCHANGED <<index, freelist, last_cursor, db_file>>]_vars

\* C7 witness: an insert was rejected for a key that holds a value
C7_Witness ==
    /\ ret.op = "insert_kv" /\ ret.res = "KeyAlreadyExist"
    /\ ret.key \in DOMAIN index
    /\ index[ret.key].space > 0

\* C8: get_value, update_value and delete_kv on a key absent from the index
\* return KeyDoesNotExist and leave the index, the free list, last_cursor and
\* the file unchanged.
C8_UnknownKeyRejected ==
    [][(ret'.op \in {"get_value", "update_value", "delete_kv"}
            /\ ret'.key \notin DOMAIN index) =>
         /\ ret'.res = "KeyDoesNotExist"
         /\ UNCHANGED <<index, freelist, last_cursor, db_file>>]_vars

\* C8 witness: a call for an unknown key was rejected while the store holds
\* another key, a free slot and file contents
C8_Witness ==
    /\ ret.op \in {"get_value", "update_value", "delete_kv"}
    /\ ret.res = "KeyDoesNotExist"
    /\ DOMAIN index # {}
    /\ freelist.list # <<>>
    /\ db_file # <<>>

\* C9: when insert_kv allocates by appending and the file write fails, it
\* returns IOError, last_cursor is back at its value before the call and the
\* key is not in the index.
C9_AppendRolledBack ==
    [][(ret'.op = "insert_kv" /\ ret'.io = "fail" /\ ret'.alloc = "append") =>
         /\ ret'.res = "IOError"
         /\ last_cursor' = last_cursor
         /\ index' = index]_vars

\* C10: when insert_kv allocates by reusing a free slot and the file write
\* fails, the free bytes, total_free_space, last_cursor and the index are the
\* same as before the call.
C10_ReuseGivenBack ==
    [][(ret'.op = "insert_kv" /\ ret'.io = "fail" /\ ret'.alloc = "reuse") =>
         /\ BytesOf(freelist'.list) = BytesOf(freelist.list)
         /\ freelist'.total_free_space = freelist.total_free_space
         /\ last_cursor' = last_cursor
         /\ index' = index]_vars

\* C11: when the file write of update_value fails, update_value returns an
\* IOError; it never returns Ok for a value that was not written.
C11_UpdateWriteFailureReported ==
    [][(ret'.op = "update_value" /\ ret'.io = "fail") => ret'.res = "IOError"]_vars

\* C12: delete_kv of a present key whose slot ends at last_cursor sets
\* last_cursor to the slot's offset and adds nothing to the free list;
\* delete_kv of any other present key adds exactly that slot to the free list
\* and leaves last_cursor unchanged; either way the key leaves the index and
\* the file is not written.
C12_DeleteShrinksOrReleases ==
    [][(ret'.op = "delete_kv" /\ ret'.key \in DOMAIN index) =>
         LET val == index[ret'.key]
         IN  /\ ret'.res = "Ok"
             /\ IF val.cursor + val.space = last_cursor
                THEN /\ last_cursor' = val.cursor
                     /\ freelist' = freelist
                ELSE /\ last_cursor' = last_cursor
                     /\ BagOf(freelist'.list) = BagOf(Append(freelist.list, val))
                     /\ freelist'.total_free_space = freelist.total_free_space + val.space
             /\ index' = IndexRemove(index, ret'.key)
             /\ db_file' = db_file]_vars

\* the list is in non-decreasing order of space
SortedBySpace(list) ==
    \A i \in 1..(Len(list) - 1) : list[i].space <= list[i + 1].space

\* no two slots of the list share a byte
Disjoint(list) ==
    \A i, j \in 1..Len(list) : i # j => ~Overlap(list[i], list[j])

\* C13: calling compact() twice in a row leaves exactly the same list (same
\* slots, same order) and the same total_free_space as calling it once: a
\* compact() that follows a compact() changes nothing.
C13_CompactIdempotent ==
    [][ret'.op = "compact" => compact(freelist') = freelist']_vars

\* C13 witness: a compact() that merged slots into one that is larger than
\* any slot handed to the free list, next to a slot it could not merge
C13_Witness ==
    /\ ret.op = "compact"
    /\ Len(freelist.list) = 2
    /\ freelist.list[1].space > 0
    /\ freelist.list[2].space > FLMaxSpace

\* C14: after compact() on a free list of pairwise disjoint slots no two
\* slots a, b of the list satisfy a.cursor + a.space = b.cursor, the bytes the
\* list covers are unchanged, and the list is sorted by space.
C14_CompactMergesEveryChain ==
    [][(ret'.op = "compact" /\ Disjoint(freelist.list)) =>
         /\ \A i, j \in 1..Len(freelist'.list) :
                i # j => freelist'.list[i].cursor + freelist'.list[i].space
                             # freelist'.list[j].cursor
         /\ BytesOf(freelist'.list) = BytesOf(freelist.list)
         /\ SortedBySpace(freelist'.list)]_vars

\* C15: a retrieve_free_space(n) that succeeds returns the cursor c of a slot
\* whose space is the minimum among all slots with space >= n; that slot is
\* removed and, when its space s exceeds n, replaced by the single remainder
\* {cursor c + n, space s - n}; total_free_space decreases by exactly n and
\* every other slot is unchanged.
C15_RetrieveTakesSmallestFit ==
    [][(ret'.op = "retrieve_free_space" /\ ret'.res = "Some") =>
         LET n == ret'.slot.space
             list == freelist.list
             fits == {i \in 1..Len(list) : list[i].space >= n}
         IN  /\ \E i \in fits :
                    /\ \A j \in fits : list[i].space <= list[j].space
                    /\ ret'.slot.cursor = list[i].cursor
                    /\ freelist'.list = Taken(list, i, n)
             /\ freelist'.total_free_space = freelist.total_free_space - n]_vars

\* the slot vector sorted by cursor leaves no two slots overlapping
NonOverlapping(sorted) ==
    \A i \in 2..Len(sorted) :
        sorted[i].cursor >= sorted[i - 1].cursor + sorted[i - 1].space

\* the gaps of a slot vector sorted by cursor: the one in front of the first
\* slot, then the one in front of every later slot, where there is one
RECURSIVE Gaps(_, _)
Gaps(sorted, i) ==
    IF i > Len(sorted) THEN <<>>
    ELSE LET end == IF i = 1 THEN 0 ELSE sorted[i - 1].cursor + sorted[i - 1].space
         IN  (IF sorted[i].cursor > end
              THEN <<Slot(end, sorted[i].cursor - end)>>
              ELSE <<>>) \o Gaps(sorted, i + 1)

\* C16: for any set of non-overlapping occupied slots new_from_index returns
\* the complement of the occupied set below the start of the last occupied
\* slot: {cursor 0, space first.cursor} when first.cursor > 0, for each pair
\* of consecutive occupied slots with a gap the slot that fills it, and no
\* slot between two contiguous ones.
C16_NewFromIndexIsComplement ==
    LET sorted == StableSort(ret.value, "cursor")
    IN  (ret.op = "new_from_index" /\ NonOverlapping(sorted))
            => BagOf(freelist.list) = BagOf(Gaps(sorted, 1))

\* C19: after any sequence of insert_free_space, retrieve_free_space and
\* compact calls the free list's vector is in non-decreasing order of space;
\* the remainder of a splitting retrieve is at its sorted position.
C19_ListSortedBySpace == SortedBySpace(freelist.list)

\* C20: retrieve_free_space(n) returns None if and only if the list holds no
\* slot with space >= n, and a None result leaves the list and
\* total_free_space unchanged.
C20_NoneIffNothingFits ==
    [][ret'.op = "retrieve_free_space" =>
         LET n == ret'.slot.space
             fits == {i \in 1..Len(freelist.list) : freelist.list[i].space >= n}
         IN  /\ ret'.res = "None" <=> fits = {}
             /\ ret'.res = "None" => freelist' = freelist]_vars

\* C17: insert_kv of a new key with an empty value succeeds, records the key
\* in the index with space 0, performs no file write, and leaves last_cursor
\* and the free list unchanged.
C17_EmptyValueInserted ==
    [][(ret'.op = "insert_kv" /\ ret'.key \notin DOMAIN index /\ ret'.value = <<>>) =>
         /\ ret'.res = "Ok"
         /\ DOMAIN index' = DOMAIN index \cup {ret'.key}
         /\ index'[ret'.key].space = 0
         /\ \A k \in DOMAIN index : index'[k] = index[k]
         /\ ret'.io = "none"
         /\ db_file' = db_file
         /\ last_cursor' = last_cursor
         /\ freelist' = freelist]_vars

\* C17 witness: an empty value was inserted while the free list held a slot
\* of positive space and the file held another key's value
C17_Witness ==
    /\ ret.op = "insert_kv" /\ ret.res = "Ok" /\ ret.value = <<>>
    /\ ret.key \in DOMAIN index
    /\ \E i \in 1..Len(freelist.list) : freelist.list[i].space > 0
    /\ \E k \in DOMAIN index : index[k].space > 0
    /\ last_cursor > 0

\* C18: the store refines a plain key-to-value map.  Every successful
\* insert_kv / update_value makes get_value return the value written for its
\* key, every successful delete_kv removes its key, the index holds the same
\* keys as the map, and what get_value returns for every other key stays as
\* it was.
C18_RefinesMap ==
    [][(ret'.op \in {"insert_kv", "update_value", "delete_kv"} /\ ret'.res = "Ok") =>
         LET k == ret'.key
         IN  /\ DOMAIN index' = IF ret'.op = "delete_kv"
                                THEN DOMAIN index \ {k}
                                ELSE DOMAIN index \cup {k}
             /\ ret'.op = "insert_kv" => k \notin DOMAIN index
             /\ ret'.op # "insert_kv" => k \in DOMAIN index
             /\ ret'.op # "delete_kv" =>
                    GetValue(index', db_file', k) = [res |-> "Ok", out |-> ret'.value]
             /\ \A k2 \in DOMAIN index' \ {k} :
                    GetValue(index', db_file', k2) = GetValue(index, db_file, k2)]_vars

\* C21: when update_value grows a value and the old slot is the trailing one
\* (old.cursor + old.space = last_cursor), the old slot is not recorded in
\* the free list, a value that is appended starts at old.cursor, and after
\* the update no slot of the free list overlaps the key's new slot.
C21_GrowTrailingNotReleased ==
    [][(/\ ret'.op = "update_value" /\ ret'.res = "Ok"
        /\ ret'.key \in DOMAIN index
        /\ Len(ret'.value) > index[ret'.key].space
        /\ index[ret'.key].cursor + index[ret'.key].space = last_cursor) =>
         LET old == index[ret'.key]
             n == Len(ret'.value)
         IN  /\ Cardinality({i \in 1..Len(freelist'.list) : freelist'.list[i] = old})
                    <= Cardinality({i \in 1..Len(freelist.list) : freelist.list[i] = old})
             /\ ret'.alloc = "append" =>
                    /\ index'[ret'.key] = Slot(old.cursor, n)
                    /\ last_cursor' = old.cursor + n
             /\ \A i \in 1..Len(freelist'.list) :
                    ~Overlap(freelist'.list[i], index'[ret'.key])]_vars

\* C22: when update_value shrinks a value of length n to length m < n, the
\* key's index entry becomes {cursor: old.cursor, space: m}, exactly one slot
\* {cursor: old.cursor + m, space: n - m} is added to the free list and
\* last_cursor is unchanged; when m = n the index entry's cursor, the free
\* list and last_cursor are all unchanged.
C22_ShrinkReleasesRemainder ==
    [][(/\ ret'.op = "update_value"
        /\ ret'.key \in DOMAIN index
        /\ Len(ret'.value) <= index[ret'.key].space) =>
         LET old == index[ret'.key]
             m == Len(ret'.value)
         IN  /\ ret'.res = "Ok"
             /\ index'[ret'.key] = Slot(old.cursor, m)
             /\ last_cursor' = last_cursor
             /\ IF m < old.space
                THEN /\ BagOf(freelist'.list)
                            = BagOf(Append(freelist.list,
                                           Slot(old.cursor + m, old.space - m)))
                     /\ freelist'.total_free_space
                            = freelist.total_free_space + (old.space - m)
                ELSE freelist' = freelist]_vars

\* C22 witness: an update shrank a value that lies in front of another key's
\* value and left its remainder in a free list that held a slot already
C22_Witness ==
    /\ ret.op = "update_value" /\ ret.res = "Ok"
    /\ ret.slot.space = 1
    /\ ret.slot.cursor + ret.slot.space < last_cursor
    /\ Len(freelist.list) >= 2
    /\ \E i \in 1..Len(freelist.list) :
           freelist.list[i] = Slot(ret.slot.cursor + 1, 1)
    /\ \E k \in DOMAIN index : index[k].cursor >= ret.slot.cursor + 2 /\ index[k].space > 0

\* C23: in every reachable state every index entry with space > 0 lies
\* entirely below the append cursor: cursor + space <= last_cursor.
C23_IndexBelowLastCursor ==
    \A k \in DOMAIN index :
        index[k].space > 0 => index[k].cursor + index[k].space <= last_cursor

\* C24: in every reachable state every slot of the free list lies entirely
\* below the append cursor: cursor + space <= last_cursor.
C24_FreeBelowLastCursor ==
    \A i \in 1..Len(freelist.list) :
        freelist.list[i].cursor + freelist.list[i].space <= last_cursor

\* C25: across a single successful operation last_cursor decreases only when
\* the operation is delete_kv or update_value on a key whose slot ended at
\* last_cursor before the call; insert_kv, get_value and delete / update of
\* a key that is not the trailing one never decrease last_cursor.
C25_LastCursorDecreasesOnTrailingOnly ==
    [][(ret'.res = "Ok" /\ last_cursor' < last_cursor) =>
         /\ ret'.op \in {"delete_kv", "update_value"}
         /\ ret'.key \in DOMAIN index
         /\ index[ret'.key].cursor + index[ret'.key].space = last_cursor]_vars

\* C25 witness: the trailing key of two was deleted and last_cursor moved
\* back to the end of the key that is left
C25_Witness ==
    /\ ret.op = "delete_kv" /\ ret.res = "Ok"
    /\ ret.slot.space > 0 /\ ret.slot.cursor > 0
    /\ last_cursor = ret.slot.cursor
    /\ \E k \in DOMAIN index :
           index[k].space > 0 /\ index[k].cursor + index[k].space = last_cursor

====
